---- MODULE Spec2Model ----
(***************************************************************************)
(* Model of packaging/language/pear.py: the Ansible module that reconciles *)
(* a PEAR package or channel with a desired state.                         *)
(*                                                                         *)
(* Text is modelled as what the code does with it:                         *)
(*  - a line of `pear list` output is a sequence of characters, split by   *)
(*    ReSplit exactly as re.split('\s+', line[, 2]) splits it;             *)
(*  - the output of a mutating command is a sequence of text atoms, and    *)
(*    Python's `marker in out_pear` is Contains (a contiguous run of       *)
(*    atoms), so that 'install ok' is found inside 'uninstall ok'.         *)
(* out_pear.split("\n") is the sequence of lines the tool printed; the     *)
(* model reads it one line per step (variable idx is the position in it).  *)
(***************************************************************************)
EXTENDS Integers, Sequences, FiniteSets, TLC

\* ------------------------------------------------------------- bounds
MaxLineLen == 6
MaxLines == 2
MaxOut == 2
MaxRC == 2
MaxRuns == 2

\* ------------------------------------------------------- Python values
None == <<"None">>
Unbound == <<"Unbound">>
EmptyStr == <<>>
NoRC == -1

Truthy(s) == s # None /\ s # EmptyStr

Alphabet == {"a", " "}
Strings(n) == UNION {[1..k -> Alphabet] : k \in 0..n}
Lines == Strings(MaxLineLen)

NameParams == {EmptyStr, <<"a">>}
VersionParams == {None, <<"a">>, <<"a", "a">>}
ChannelParams == {EmptyStr, <<"a">>}
RCs == 0..MaxRC

PackageAtoms == {"un", "install ok", "not installed", "already installed", "other"}
ChannelAtoms == {"is already initialized", "does not exist", "succeeded", "deleted", "other"}
Texts(atoms) == UNION {[1..k -> atoms] : k \in 0..MaxOut}
ErrTexts == {EmptyStr, <<"other">>}

install_ok == <<"install ok">>
uninstall_ok == <<"un", "install ok">>
not_installed == <<"not installed">>
already_installed == <<"already installed">>
is_already_initialized == <<"is already initialized">>
does_not_exist == <<"does not exist">>
succeeded == <<"succeeded">>
deleted == <<"deleted">>

\* Python's `marker in out`
Contains(out, marker) ==
    \E i \in 1..(Len(out) - Len(marker) + 1) :
        SubSeq(out, i, i + Len(marker) - 1) = marker

\* --------------------------------------------------- re.split('\s+', s, n)
IsSpace(c) == c = " "

FirstSpace(s) == CHOOSE i \in 1..Len(s) :
    IsSpace(s[i]) /\ \A k \in 1..(i - 1) : ~IsSpace(s[k])

RunEnd(s, i) == CHOOSE j \in i..Len(s) :
    /\ \A k \in i..j : IsSpace(s[k])
    /\ (j = Len(s) \/ ~IsSpace(s[j + 1]))

\* maxsplit = 0 means no limit, as in Python; nsplit counts the splits made.
RECURSIVE ReSplit(_, _, _)
ReSplit(s, maxsplit, nsplit) ==
    IF (maxsplit > 0 /\ nsplit >= maxsplit) \/ ~(\E i \in 1..Len(s) : IsSpace(s[i]))
    THEN <<s>>
    ELSE LET i == FirstSpace(s)
             j == RunEnd(s, i)
         IN  <<SubSeq(s, 1, i - 1)>> \o ReSplit(SubSeq(s, j + 1, Len(s)), maxsplit, nsplit + 1)

HeaderLines == 3

\* re.split('\s+', pkg) and re.split('\s+', channel, 2), tabulated over Lines
PkgFieldsOf == [l \in Lines |-> ReSplit(l, 0, 0)]
ChannelFieldsOf == [l \in Lines |-> ReSplit(l, 2, 0)]

PkgFields(pkg) == PkgFieldsOf[pkg]
ChannelFields(chan) == ChannelFieldsOf[chan]

\* the list unpacking [a, b, c] = ... succeeds only on exactly three values
Unpacks(fields) == Len(fields) = 3

\* --------------------------------------------------------------- state
VARIABLES
    state, name, version, channel, check_mode,   \* module.params, module.check_mode
    cmd,                                         \* the mutating command line
    pc, run,                                     \* position in main(); which run
    rc_query, idx,                               \* exit code of the list query; lines read
    pkg_name, pkg_version, channel_url,          \* loop-carried locals of the queries
    present,                                     \* value the query returned
    rc, out_pear, err_pear,                      \* what the mutating command returned
    ran,                                         \* verbs passed to run_command in this run
    outcome,                                     \* exit_json / fail_json / traceback
    hostPresent, host0, seen, firstHit, headOk, prevPresent, prevResp   \* the host (the pear tool)

vars == <<state, name, version, channel, check_mode, cmd, pc, run, rc_query, idx,
          pkg_name, pkg_version, channel_url, present, rc, out_pear, err_pear,
          ran, outcome, hostPresent, host0, seen, firstHit, headOk, prevPresent, prevResp>>

params == <<state, name, version, channel, check_mode>>
queryLocals == <<idx, pkg_name, pkg_version, channel_url, present, seen, firstHit>>
response == <<rc, out_pear, err_pear>>

NoCmd == <<>>
NoResp == [rc |-> NoRC, out |-> EmptyStr, err |-> EmptyStr]
NoMsg == [text |-> "", stdout |-> EmptyStr, stderr |-> EmptyStr, rc |-> 0]
NoOutcome == [kind |-> "none", changed |-> FALSE, cmd |-> NoCmd,
              stdout |-> EmptyStr, stderr |-> EmptyStr, msg |-> NoMsg, unbound |-> ""]

\* module.exit_json(changed=..., cmd=..., stdout=..., stderr=...)
ExitJson(c, command, out, err) ==
    [NoOutcome EXCEPT !.kind = "exit", !.changed = c, !.cmd = command,
                      !.stdout = out, !.stderr = err]

\* module.fail_json(cmd=..., msg=...)
FailJson(command, m) == [NoOutcome EXCEPT !.kind = "fail", !.cmd = command, !.msg = m]

\* an uncaught NameError / UnboundLocalError on reading variable v
Traceback(v) == [NoOutcome EXCEPT !.kind = "crash", !.unbound = v]

\* ------------------------------------------------------- pure helpers
get_full_name(n, v) == IF v = None THEN n ELSE n \o <<"-">> \o v

package_state_map(st) == IF st = "present" THEN "install" ELSE "uninstall"

channel_state_map(st) == IF st = "present" THEN "channel-discover" ELSE "channel-delete"

QueryVerb == IF Truthy(name) THEN "list" ELSE "list-channels"

MutatingVerbs == {"install", "uninstall", "channel-discover", "channel-delete"}

\* _fail: the parts of msg that are left out are exactly the empty/zero ones
FailMsg(out, err, code) ==
    [text |-> "", stdout |-> out, stderr |-> err, rc |-> IF code = NoRC THEN 0 ELSE code]

\* ------------------------------------------------ decisions of the code
QueryFailed_above_one(code) == code > 1

\* `if rc != 0: module.fail_json()` of both queries
QueryFailed(code) == code # 0

\* `pkg_name == name and (version is None or version == pkg_version)`
PkgMatches(pn, pv, n, v) == pn = n /\ (v = None \/ v = pv)

\* `channel_url == name`
ChannelMatches(url, n) == url = n

CheckModeQueries_name_only(n, c) == Truthy(n)

\* the check-mode block has a branch for the target: `if name: ... elif channel: ...`
CheckModeQueries(n, c) == Truthy(n) \/ Truthy(c)

\* changed = (state == 'present' and not is_present) or (state == 'absent' and is_present)
PredictedChange(st, p) == (st = "present" /\ ~p) \/ (st = "absent" /\ p)

\* `state == 'present' and present or state == 'absent' and not present`
AlreadyConverged(st, p) == (st = "present" /\ p) \/ (st = "absent" /\ ~p)

\* the if/elif chain that ends in _fail(module, cmd, out, err) for a package
PackageFails(st, code, out) ==
    IF code = 0 /\ st = "absent" /\ Contains(out, not_installed) THEN FALSE
    ELSE IF code = 1 /\ st = "present" /\ Contains(out, already_installed) THEN FALSE
    ELSE code # 0

PackageChanged_install_only(st, out) == Contains(out, install_ok)

PackageChanged(st, out) ==
    IF st = "absent" THEN Contains(out, uninstall_ok) ELSE Contains(out, install_ok)

ChannelOutcome_no_rc_test(st, code, out) ==
    IF st = "present" /\ Contains(out, is_already_initialized) THEN "False"
    ELSE IF st = "absent" /\ Contains(out, does_not_exist) THEN "False"
    ELSE IF st = "present" /\ Contains(out, succeeded) THEN "True"
    ELSE IF st = "absent" /\ Contains(out, deleted) THEN "True"
    ELSE IF code = 1 THEN "fail"
    ELSE "unbound"

\* the if/elif chain of a channel action: the value `changed` is bound to ("True",
\* "False"), "fail" for _fail(...), "unbound" when no branch is taken
ChannelOutcome(st, code, out) ==
    IF code = 1 /\ st = "present" /\ Contains(out, is_already_initialized) THEN "False"
    ELSE IF code = 1 /\ st = "absent" /\ Contains(out, does_not_exist) THEN "False"
    ELSE IF code = 0 /\ st = "present" /\ Contains(out, succeeded) THEN "True"
    ELSE IF code = 0 /\ st = "absent" /\ Contains(out, deleted) THEN "True"
    ELSE IF code = 1 THEN "fail"
    ELSE "unbound"

PackageResult(st, code, out, err, command) ==
    IF PackageFails(st, code, out)
    THEN FailJson(command, FailMsg(out, err, NoRC))
    ELSE ExitJson(PackageChanged(st, out), command, out, err)

ChannelResult(st, code, out, err, command) ==
    LET o == ChannelOutcome(st, code, out)
    IN  IF o = "fail" THEN FailJson(command, FailMsg(out, err, code))
        ELSE IF o = "unbound" THEN Traceback("changed")
        ELSE ExitJson(o = "True", command, out, err)

\* ------------------------------------------- the host: the pear tool
\* A data line that lists the target: for a package a line of exactly three
\* fields name, version, state; for a channel a line whose first field is the url.
ListedPackage(line) ==
    LET f == PkgFields(line)
    IN  Len(f) = 3 /\ f[1] = name /\ (version = None \/ f[2] = version)

ListedChannel(line) == ChannelFields(line)[1] = channel

Listed(line) == IF Truthy(name) THEN ListedPackage(line) ELSE ListedChannel(line)

WellFormed(line) ==
    IF Truthy(name) THEN Unpacks(PkgFields(line)) ELSE Unpacks(ChannelFields(line))

LastSlot == HeaderLines + MaxLines - 1

\* The lines the tool prints agree with what is installed (hostPresent); when the
\* listing is known to start with a well-formed row (headOk) it still does.
HostPrints(line) ==
    /\ ~hostPresent => ~Listed(line)
    /\ (hostPresent /\ ~seen /\ idx = LastSlot) => Listed(line)
    /\ (headOk /\ idx = HeaderLines) => WellFormed(line)

\* The answers the tool gives: the same answer to the same command on an unchanged
\* host, and the no-op answer to a channel command that has nothing to do.
HostAnswers(verb, code, out, err) ==
    /\ prevResp # NoResp => prevResp = [rc |-> code, out |-> out, err |-> err]
    /\ (verb = "channel-discover" /\ hostPresent) =>
            code = 1 /\ Contains(out, is_already_initialized)
    /\ (verb = "channel-delete" /\ ~hostPresent) =>
            code = 1 /\ Contains(out, does_not_exist)

\* The tool prints its success marker exactly when it made the change.
HostAfter(verb, p, out) ==
    IF verb = "install" THEN p \/ Contains(out, install_ok)
    ELSE IF verb = "uninstall" THEN p /\ ~Contains(out, uninstall_ok)
    ELSE IF verb = "channel-discover" THEN p \/ Contains(out, succeeded)
    ELSE p /\ ~Contains(out, deleted)

\* ---------------------------------------------------------------- Init
Init ==
    /\ state \in {"present", "absent"}
    /\ name \in NameParams \cup {None}
    /\ channel \in ChannelParams \cup {None}
    /\ version \in VersionParams
    /\ check_mode \in BOOLEAN
    \* required_one_of / mutually_exclusive of the argument spec
    /\ (name = None) # (channel = None)
    /\ name = None => version = None
    /\ cmd = NoCmd
    /\ pc = "main"
    /\ run = 1
    /\ rc_query = NoRC
    /\ idx = 0
    /\ pkg_name = Unbound
    /\ pkg_version = Unbound
    /\ channel_url = Unbound
    /\ present = "unset"
    /\ rc = NoRC
    /\ out_pear = EmptyStr
    /\ err_pear = EmptyStr
    /\ ran = <<>>
    /\ outcome = NoOutcome
    /\ hostPresent \in BOOLEAN
    /\ host0 = hostPresent
    /\ seen = FALSE
    /\ firstHit = FALSE
    /\ headOk = FALSE
    /\ prevPresent = "unset"
    /\ prevResp = NoResp

\* ------------------------------------------------------------- actions
\* main(), from building cmd to its first external call
Main ==
    /\ pc = "main"
    /\ cmd' = IF Truthy(name)
              THEN <<package_state_map(state), get_full_name(name, version)>>
              ELSE IF Truthy(channel) THEN <<channel_state_map(state), channel>>
              ELSE NoCmd
    /\ IF ~Truthy(name) /\ ~Truthy(channel)
       THEN /\ pc' = "done"
            /\ outcome' = FailJson(NoCmd, [NoMsg EXCEPT !.text = "not enough parameters"])
       ELSE /\ pc' = IF (check_mode /\ CheckModeQueries(name, channel)) \/ Truthy(name)
                     THEN "query" ELSE "command"
            /\ UNCHANGED outcome
    /\ UNCHANGED <<params, run, rc_query, queryLocals, response, ran,
                   hostPresent, host0, headOk, prevPresent, prevResp>>

\* main(), from the value the query returned to exit_json or to the command
AfterQuery(p) ==
    IF check_mode /\ CheckModeQueries(name, channel)
    THEN /\ outcome' = ExitJson(PredictedChange(state, p), NoCmd, EmptyStr, EmptyStr)
         /\ pc' = "done"
    ELSE IF AlreadyConverged(state, p)
    THEN /\ outcome' = ExitJson(FALSE, NoCmd, EmptyStr, EmptyStr)
         /\ pc' = "done"
    ELSE /\ pc' = "command"
         /\ UNCHANGED outcome

\* the query returns: its locals go out of scope
Return(p) ==
    /\ present' = (IF p THEN "True" ELSE "False")
    /\ pkg_name' = Unbound
    /\ pkg_version' = Unbound
    /\ channel_url' = Unbound
    /\ AfterQuery(p)

\* rc, out_pear, err_pear = module.run_command('pear list' | 'pear list-channels').
\* On a host that has not changed since the previous run the listing is the one
\* that run read, and the loop over it returns what it returned then.
QueryRun ==
    /\ pc = "query"
    /\ \E code \in RCs :
        /\ run > 1 => code = 0
        /\ rc_query' = code
        /\ ran' = Append(ran, QueryVerb)
        /\ IF QueryFailed(code)
           THEN /\ pc' = "done"
                /\ outcome' = FailJson(NoCmd, NoMsg)
                /\ UNCHANGED <<pkg_name, pkg_version, channel_url, present>>
           ELSE IF prevPresent # "unset"
           THEN Return(prevPresent = "True")
           ELSE /\ pc' = "loop"
                /\ UNCHANGED <<outcome, pkg_name, pkg_version, channel_url, present>>
    /\ UNCHANGED <<params, cmd, run, idx, seen, firstHit, response,
                   hostPresent, host0, headOk, prevPresent, prevResp>>

\* one iteration of `for pkg in installed_pkgs`
PkgLoopBody(pkg) ==
    LET f == PkgFields(pkg)
        pn == IF Unpacks(f) THEN f[1] ELSE pkg_name
        pv == IF Unpacks(f) THEN f[2] ELSE pkg_version
    IN  IF pn = Unbound
        THEN /\ pc' = "done"
             /\ outcome' = Traceback("pkg_name")
             /\ UNCHANGED <<pkg_name, pkg_version, channel_url, present>>
        ELSE IF PkgMatches(pn, pv, name, version)
        THEN Return(TRUE)
        ELSE /\ pkg_name' = pn
             /\ pkg_version' = pv
             /\ UNCHANGED <<channel_url, present, pc, outcome>>

\* one iteration of `for channel in installed_channels`
ChannelLoopBody(chan) ==
    LET f == ChannelFields(chan)
        url == IF Unpacks(f) THEN f[1] ELSE channel_url
    IN  IF url = Unbound
        THEN /\ pc' = "done"
             /\ outcome' = Traceback("channel_url")
             /\ UNCHANGED <<pkg_name, pkg_version, channel_url, present>>
        ELSE IF ChannelMatches(url, channel)
        THEN Return(TRUE)
        ELSE /\ channel_url' = url
             /\ UNCHANGED <<pkg_name, pkg_version, present, pc, outcome>>

\* the next line of out_pear.split("\n"): dropped by [3:], or one loop iteration
ReadLine ==
    /\ pc = "loop"
    /\ idx < HeaderLines + MaxLines
    /\ IF idx < HeaderLines
       THEN /\ idx' = idx + 1
            /\ UNCHANGED <<pkg_name, pkg_version, channel_url, present, seen,
                           firstHit, pc, outcome>>
       ELSE \E line \in Lines :
            /\ HostPrints(line)
            /\ seen' = (seen \/ Listed(line))
            /\ firstHit' = (idx = HeaderLines)
            /\ IF Truthy(name) THEN PkgLoopBody(line) ELSE ChannelLoopBody(line)
            /\ idx' = IF pc' = "loop" THEN idx + 1 ELSE 0
    /\ UNCHANGED <<params, cmd, run, rc_query, response, ran,
                   hostPresent, host0, headOk, prevPresent, prevResp>>

\* the lines are exhausted: `return False`
LoopEnd ==
    /\ pc = "loop"
    /\ seen = hostPresent
    /\ Return(FALSE)
    /\ idx' = 0
    /\ UNCHANGED <<params, cmd, run, rc_query, seen, firstHit, response, ran,
                   hostPresent, host0, headOk, prevPresent, prevResp>>

\* module.run_command(cmd) and the classification of its outcome
RunCommand ==
    /\ pc = "command"
    /\ \E code \in RCs, err \in ErrTexts,
          out \in Texts(IF Truthy(name) THEN PackageAtoms ELSE ChannelAtoms) :
        /\ HostAnswers(cmd[1], code, out, err)
        /\ rc' = code
        /\ out_pear' = out
        /\ err_pear' = err
        /\ ran' = Append(ran, cmd[1])
        /\ hostPresent' = HostAfter(cmd[1], hostPresent, out)
        /\ outcome' = IF Truthy(name)
                      THEN PackageResult(state, code, out, err, cmd)
                      ELSE ChannelResult(state, code, out, err, cmd)
    /\ pc' = "done"
    /\ UNCHANGED <<params, cmd, run, rc_query, queryLocals, host0, headOk, prevPresent, prevResp>>

\* the same task is run again on the host the previous run left behind
Rerun ==
    /\ pc = "done"
    /\ run < MaxRuns
    /\ outcome.kind = "exit"
    /\ run' = run + 1
    /\ pc' = "main"
    /\ cmd' = NoCmd
    /\ rc_query' = NoRC
    /\ idx' = 0
    /\ present' = "unset"
    /\ seen' = (hostPresent = host0 /\ seen)
    /\ firstHit' = FALSE
    /\ rc' = NoRC
    /\ out_pear' = EmptyStr
    /\ err_pear' = EmptyStr
    /\ ran' = <<>>
    /\ outcome' = NoOutcome
    /\ host0' = hostPresent
    /\ headOk' = (/\ rc_query = 0
                  /\ hostPresent # host0
                  /\ (cmd[1] = "install" \/ ~firstHit))
    /\ prevPresent' = IF hostPresent = host0 THEN present ELSE "unset"
    /\ prevResp' = IF hostPresent = host0 /\ rc # NoRC
                   THEN [rc |-> rc, out |-> out_pear, err |-> err_pear]
                   ELSE NoResp
    /\ UNCHANGED <<params, pkg_name, pkg_version, channel_url, hostPresent>>

Next == Main \/ QueryRun \/ ReadLine \/ LoopEnd \/ RunCommand \/ Rerun

Spec == Init /\ [][Next]_vars

\* ------------------------------------------------------------- claims
Done == pc = "done"

Mutated == \E i \in 1..Len(ran) : ran[i] \in MutatingVerbs

CommandRan == rc # NoRC

IsPackageRun == Truthy(name)

IsChannelRun == ~Truthy(name) /\ Truthy(channel)

QueryReturned == rc_query = 0 /\ pc \in {"command", "done"}

SuccessMarker == IF state = "absent" THEN uninstall_ok ELSE install_ok

Tolerated ==
    IF IsPackageRun
    THEN rc = 1 /\ state = "present" /\ Contains(out_pear, already_installed)
    ELSE \/ rc = 1 /\ state = "present" /\ Contains(out_pear, is_already_initialized)
         \/ rc = 1 /\ state = "absent" /\ Contains(out_pear, does_not_exist)

\* C1: when the target's presence on the host at the start of the run already
\* equals the desired presence, no mutating command is executed and the run
\* (unless its query failed) ends with changed=false, in dry-run and real mode,
\* for packages and channels.
C1_ConvergedRunsNothing ==
    ((IsPackageRun \/ IsChannelRun) /\ host0 = (state = "present")) =>
        /\ ~Mutated
        /\ (Done /\ rc_query \in {NoRC, 0}) =>
                (outcome.kind = "exit" /\ ~outcome.changed)

\* C2: in check mode every command passed to run_command is the list or the
\* list-channels query; no mutating command is ever executed.
C2_DryRunNeverMutates ==
    check_mode => \A i \in 1..Len(ran) : ran[i] \in {"list", "list-channels"}

C2_Witness ==
    /\ check_mode
    /\ Done
    /\ outcome.kind = "exit"
    /\ outcome.changed
    /\ Len(ran) = 1

\* C3: a real-mode run that follows a run with the same desired state, on the
\* host that run left behind, reports changed=false.
C3_SecondRunUnchanged ==
    (run >= 2 /\ ~check_mode /\ Done) => (outcome.kind = "exit" /\ ~outcome.changed)

\* C4: when the mutating command exits non-zero in a combination that is not
\* tolerated, the run ends in a fail_json record that carries the command and
\* its stdout and stderr.
C4_UntoleratedExitIsExecutionError ==
    (Done /\ CommandRan /\ rc # 0 /\ ~Tolerated) =>
        /\ outcome.kind = "fail"
        /\ outcome.cmd = cmd
        /\ outcome.msg.stdout = out_pear
        /\ outcome.msg.stderr = err_pear

\* C5: a channel action run in real mode reports changed=false on exit 1 with
\* 'is already initialized' (present) or 'does not exist' (absent), and
\* changed=true on exit 0 with 'succeeded' (present) or 'deleted' (absent).
C5_ChannelClassification ==
    (Done /\ CommandRan /\ IsChannelRun /\ ~check_mode) =>
        /\ (rc = 1 /\ state = "present" /\ Contains(out_pear, is_already_initialized))
                => (outcome.kind = "exit" /\ outcome.changed = FALSE)
        /\ (rc = 1 /\ state = "absent" /\ Contains(out_pear, does_not_exist))
                => (outcome.kind = "exit" /\ outcome.changed = FALSE)
        /\ (rc = 0 /\ state = "present" /\ Contains(out_pear, succeeded))
                => (outcome.kind = "exit" /\ outcome.changed = TRUE)
        /\ (rc = 0 /\ state = "absent" /\ Contains(out_pear, deleted))
                => (outcome.kind = "exit" /\ outcome.changed = TRUE)

C5_Witness ==
    /\ Done
    /\ IsChannelRun
    /\ ~check_mode
    /\ rc = 1
    /\ state = "absent"
    /\ Contains(out_pear, does_not_exist)
    /\ Contains(out_pear, deleted)
    /\ outcome.kind = "exit"
    /\ ~outcome.changed

\* C6: a package action that was executed and did not end in fail_json reports
\* changed=true exactly when the output contains 'uninstall ok' (absent) or
\* 'install ok' (present).
C6_PackageChangedIffMarker ==
    (Done /\ CommandRan /\ IsPackageRun /\ outcome.kind # "fail") =>
        /\ outcome.kind = "exit"
        /\ outcome.changed <=> Contains(out_pear, SuccessMarker)

C6_Witness ==
    /\ Done
    /\ IsPackageRun
    /\ state = "absent"
    /\ rc = 0
    /\ Contains(out_pear, install_ok)
    /\ ~Contains(out_pear, uninstall_ok)
    /\ outcome.kind = "exit"
    /\ ~outcome.changed

\* C7: when the list or list-channels query exits non-zero the run is over with
\* a failure: no line of its output was read, no presence was decided, no
\* mutating command ran and no result was reported.
C7_QueryFailureIsFatal ==
    (rc_query # NoRC /\ rc_query # 0) =>
        /\ Done
        /\ outcome.kind = "fail"
        /\ idx = 0
        /\ present = "unset"
        /\ pkg_name = Unbound
        /\ channel_url = Unbound
        /\ ~Mutated
        /\ ~CommandRan

C7_Witness ==
    /\ rc_query = 1
    /\ Done
    /\ outcome.kind = "fail"
    /\ ran = <<"list">>

\* C8: the package query never aborts and returns true exactly when a line after
\* the three header lines splits into exactly three fields with the name first
\* and, when a version is given, the version second.
C8_PackagePresence ==
    (IsPackageRun /\ QueryReturned) =>
        /\ outcome.kind # "crash"
        /\ present = (IF seen THEN "True" ELSE "False")

\* C9: the channel query returns true exactly when a line after the three header
\* lines has the url as its first field, whether the line has one, two or three
\* fields.
C9_ChannelPresence ==
    (IsChannelRun /\ QueryReturned) =>
        /\ outcome.kind # "crash"
        /\ present = (IF seen THEN "True" ELSE "False")

\* C10: every finished run has reported a result record or an error record; the
\* report never reads a variable that was not assigned.
C10_DefinedOutcome == Done => outcome.kind \in {"exit", "fail"}

====
